---- MODULE Spec2Model ----
(***************************************************************************)
(* A model of build.rs of tesseract-sys: the build script that emits the   *)
(* link directives of the bundled tesseract copy and writes the two        *)
(* generated binding files, together with the platform-specific locators   *)
(* (find_tesseract_system_lib) and the prefix stripping of the public-enum *)
(* generator.                                                              *)
(*                                                                         *)
(* Paths and directives of the bundled strategy are TLA+ strings (push_str *)
(* and format! are \o).  Texts that the code inspects character by         *)
(* character (generated bindings, environment values, pkg-config paths)    *)
(* are sequences of one-character strings.                                 *)
(***************************************************************************)
EXTENDS Naturals, Sequences, FiniteSets, TLC

VARIABLES
    \* ---- one run of main ----
    platform,             \* cfg(target_os / windows) of the build
    env_HOME,             \* TRUE iff HOME is set
    env_OUT_DIR,          \* TRUE iff OUT_DIR is set
    bundled_lib,          \* TRUE iff resources/libs/tesseract/5.3.4/lib exists
    bundled_include,      \* TRUE iff resources/libs/tesseract/5.3.4/include exists
    pc,                   \* position of main
    failed_at,            \* the position whose step panicked ("" while none has)
    stdout,               \* the lines println! has written, in order
    clang_extra_include,  \* main's local of that name
    location_revealed,    \* TRUE iff $HOME/location_revealed.txt was created
    events,               \* the generator calls and file writes made, in order
    clang_args,           \* generator name -> the clang arguments it was given
    parser_runs,          \* generator name -> number of bindgen generate() calls
    pending,              \* the value of the generator call awaiting its write
    out_files,            \* file name in OUT_DIR -> what this run wrote there
    \* ---- find_tesseract_system_lib, windows ----
    w_env,                \* the three TESSERACT_* variables
    w_vcpkg,              \* what vcpkg's database holds for "tesseract"
    w_pc,
    w_stdout,
    w_result,
    w_queried,            \* TRUE iff find_package was called
    \* ---- find_tesseract_system_lib, pkg-config ----
    p_pk,                 \* what pkg-config reports
    p_pc,
    p_stdout,
    p_result,
    \* ---- str::replace of public_types_bindings ----
    s_text,               \* the text bindgen generated
    s_pc,
    s_result

mainVars == <<platform, env_HOME, env_OUT_DIR, bundled_lib, bundled_include, pc,
              failed_at, stdout, clang_extra_include, location_revealed, events,
              clang_args, parser_runs, pending, out_files>>
winVars == <<w_env, w_vcpkg, w_pc, w_stdout, w_result, w_queried>>
pkgVars == <<p_pk, p_pc, p_stdout, p_result>>
stripVars == <<s_text, s_pc, s_result>>
vars == <<mainVars, winVars, pkgVars, stripVars>>

\* ------------------------------------------------------------------------
\* Bounds of the model
\* ------------------------------------------------------------------------
\* pieces concatenated into one generated text
MaxPieces == 4
\* pieces concatenated into one pkg-config path
MaxPathPieces == 3
\* include paths reported by pkg-config or vcpkg
MaxPaths == 2
\* characters of one TESSERACT_* value
MaxEnvLen == 3

\* ------------------------------------------------------------------------
\* Sequences of characters
\* ------------------------------------------------------------------------
RECURSIVE Flatten(_)
Flatten(ss) == IF ss = <<>> THEN <<>> ELSE Head(ss) \o Flatten(Tail(ss))

SeqsUpTo(S, n) == UNION {[1..k -> S] : k \in 0..n}

StartsWithAt(s, i, pat) ==
    /\ i + Len(pat) - 1 <= Len(s)
    /\ \A k \in 1..Len(pat) : s[i + k - 1] = pat[k]

Occurs(s, pat) == \E i \in 1..Len(s) : StartsWithAt(s, i, pat)

\* str::replace(from, to): the non-overlapping matches of `from`, found left to
\* right in the original text, are each replaced by `to`; the result is not
\* searched again.
RECURSIVE ReplaceFrom(_, _, _, _)
ReplaceFrom(s, i, from, to) ==
    IF i > Len(s) THEN <<>>
    ELSE IF StartsWithAt(s, i, from)
         THEN to \o ReplaceFrom(s, i + Len(from), from, to)
         ELSE <<s[i]>> \o ReplaceFrom(s, i + 1, from, to)

Replace(s, from, to) == ReplaceFrom(s, 1, from, to)

\* ------------------------------------------------------------------------
\* Constants of build.rs
\* ------------------------------------------------------------------------
TESSERACT_VERSION == "5.3.4"
LIBS_PATH == "resources/libs/"

\* the token of .replace("tesseract_", "")
NamespacePrefix == <<"t", "e", "s", "s", "e", "r", "a", "c", "t", "_">>

\* include_str!("src/public_types_bindings_mac.rs"): a fixed text
MacFixture == <<"p", "u", "b", " ", "e", "n", "u", "m", " ", "O", "e", "m">>

PlatformIdentity == {"windows", "macos", "linux", "freebsd", "other"}

CapiFile == "capi_bindings.rs"
PublicTypesFile == "public_types_bindings.rs"

\* ------------------------------------------------------------------------
\* Generated texts
\* ------------------------------------------------------------------------
\* Pieces of generated text: the token, the two halves that a removed
\* occurrence can join, and an ordinary identifier character.
TextPieces == { NamespacePrefix,
                <<"t", "e", "s", "s", "e">>,
                <<"r", "a", "c", "t", "_">>,
                <<"O">> }

GeneratedTexts == { Flatten(ps) : ps \in SeqsUpTo(TextPieces, MaxPieces) }

\* the texts bindgen produces in a run of main
ParsedSamples == { <<"O">>,
                   NamespacePrefix \o <<"O">>,
                   <<"O">> \o NamespacePrefix \o NamespacePrefix \o <<"O">> }

\* ------------------------------------------------------------------------
\* find_bundled_tesseract_lib: the paths it builds
\* ------------------------------------------------------------------------
tesseract_dir == (LIBS_PATH \o "tesseract/") \o TESSERACT_VERSION

tesseract_lib_dir == tesseract_dir \o "/lib"

\* the include directory pushed onto the lib directory instead of a fresh clone
tesseract_include_dir_shared == tesseract_lib_dir \o "/include"
\* tesseract_dir.clone() with "/include" pushed
tesseract_include_dir == tesseract_dir \o "/include"

\* for inc in clang_extra_include { .clang_arg(format!("-I{}", *inc)) }
ClangArgs(includes) == [i \in DOMAIN includes |-> "-I" \o includes[i]]

\* ------------------------------------------------------------------------
\* One run of main
\* ------------------------------------------------------------------------
NoFile == [state |-> "none", src |-> "none"]

InitMain ==
    /\ platform \in PlatformIdentity
    /\ env_HOME \in BOOLEAN
    /\ env_OUT_DIR \in BOOLEAN
    /\ bundled_lib \in BOOLEAN
    /\ bundled_include \in BOOLEAN
    /\ pc = "reveal_location"
    /\ failed_at = ""
    /\ stdout = <<>>
    /\ clang_extra_include = <<>>
    /\ location_revealed = FALSE
    /\ events = <<>>
    /\ clang_args = [g \in {"capi", "public_types"} |-> <<>>]
    /\ parser_runs = [g \in {"capi", "public_types"} |-> 0]
    /\ pending = NoFile
    /\ out_files = [f \in {CapiFile, PublicTypesFile} |-> NoFile]

inputsMain == <<platform, env_HOME, env_OUT_DIR, bundled_lib, bundled_include>>
otherVars == <<winVars, pkgVars, stripVars>>

\* a panic (unwrap / expect on a failure): the process ends
Panic(step) ==
    /\ pc' = "aborted"
    /\ failed_at' = step

\* reveal_location().expect(..): runs pwd, reads HOME, creates
\* $HOME/location_revealed.txt and writes the working directory to it.
RevealLocation ==
    /\ pc = "reveal_location"
    /\ \E pwd_ok \in BOOLEAN, create_ok \in BOOLEAN, write_ok \in BOOLEAN :
          IF ~pwd_ok \/ ~env_HOME \/ ~create_ok
          THEN /\ Panic("reveal_location")
               /\ UNCHANGED location_revealed
          ELSE /\ location_revealed' = TRUE
               /\ IF write_ok
                  THEN pc' = "emit_link_search" /\ UNCHANGED failed_at
                  ELSE Panic("reveal_location")
    /\ UNCHANGED <<inputsMain, stdout, clang_extra_include, events, clang_args,
                   parser_runs, pending, out_files, otherVars>>

\* the link-library println! left out: the function returns after the first
EmitLinkSearch_skipLib ==
    /\ pc = "emit_link_search"
    /\ stdout' = Append(stdout, "cargo:rustc-link-search=native=" \o tesseract_lib_dir)
    /\ clang_extra_include' = <<tesseract_include_dir>>
    /\ pc' = "out_dir"
    /\ UNCHANGED <<inputsMain, failed_at, location_revealed, events, clang_args,
                   parser_runs, pending, out_files, otherVars>>
\* println!("cargo:rustc-link-search=native={}", tesseract_lib_dir)
EmitLinkSearch ==
    /\ pc = "emit_link_search"
    /\ stdout' = Append(stdout, "cargo:rustc-link-search=native=" \o tesseract_lib_dir)
    /\ pc' = "emit_link_lib"
    /\ UNCHANGED <<inputsMain, failed_at, clang_extra_include, location_revealed,
                   events, clang_args, parser_runs, pending, out_files, otherVars>>

\* println!("cargo:rustc-link-lib=tesseract"); vec![tesseract_include_dir],
\* bound to clang_extra_include by main
EmitLinkLib ==
    /\ pc = "emit_link_lib"
    /\ stdout' = Append(stdout, "cargo:rustc-link-lib=tesseract")
    /\ clang_extra_include' = <<tesseract_include_dir>>
    /\ pc' = "out_dir"
    /\ UNCHANGED <<inputsMain, failed_at, location_revealed, events, clang_args,
                   parser_runs, pending, out_files, otherVars>>

\* PathBuf::from(env::var("OUT_DIR").unwrap())
OutDir ==
    /\ pc = "out_dir"
    /\ IF env_OUT_DIR
       THEN pc' = "capi_bindings" /\ UNCHANGED failed_at
       ELSE Panic("out_dir")
    /\ UNCHANGED <<inputsMain, stdout, clang_extra_include, location_revealed,
                   events, clang_args, parser_runs, pending, out_files, otherVars>>

\* capi_bindings(&clang_extra_include): bindgen parses wrapper_capi.h
CapiBindings ==
    /\ pc = "capi_bindings"
    /\ events' = Append(events, "capi_bindings")
    /\ clang_args' = [clang_args EXCEPT !["capi"] = ClangArgs(clang_extra_include)]
    /\ parser_runs' = [parser_runs EXCEPT !["capi"] = @ + 1]
    /\ \E generated \in BOOLEAN :
          IF generated
          THEN /\ pending' = [state |-> "complete", src |-> "capi"]
               /\ pc' = "write_capi"
               /\ UNCHANGED failed_at
          ELSE /\ Panic("capi_bindings")
               /\ UNCHANGED pending
    /\ UNCHANGED <<inputsMain, stdout, clang_extra_include, location_revealed,
                   out_files, otherVars>>

\* a write whose error is reported although every byte reached the file
WriteFile_errorAfterComplete(name, step, next) ==
    /\ events' = Append(events, "write " \o name)
    /\ \E written \in {"complete", "partial", "none"}, ok \in BOOLEAN :
          /\ out_files' = [out_files EXCEPT ![name] =
                              IF written = "none" THEN @
                              ELSE [pending EXCEPT !.state = written]]
          /\ IF written = "complete" /\ ok
             THEN pc' = next /\ UNCHANGED failed_at
             ELSE Panic(step)
    /\ pending' = NoFile
\* a write that fails leaves the file untouched or partly written
WriteFile(name, step, next) ==
    /\ events' = Append(events, "write " \o name)
    /\ \E written \in {"complete", "partial", "none"} :
          /\ out_files' = [out_files EXCEPT ![name] =
                              IF written = "none" THEN @
                              ELSE [pending EXCEPT !.state = written]]
          /\ IF written = "complete"
             THEN pc' = next /\ UNCHANGED failed_at
             ELSE Panic(step)
    /\ pending' = NoFile

\* the Result of write_to_file dropped instead of expect-ed
WriteCapi_ignoreError ==
    /\ pc = "write_capi"
    /\ events' = Append(events, "write " \o CapiFile)
    /\ \E written \in {"complete", "partial", "none"} :
          out_files' = [out_files EXCEPT ![CapiFile] =
                           IF written = "none" THEN @
                           ELSE [pending EXCEPT !.state = written]]
    /\ pending' = NoFile
    /\ pc' = "public_types_bindings"
    /\ UNCHANGED <<inputsMain, failed_at, stdout, clang_extra_include,
                   location_revealed, clang_args, parser_runs, otherVars>>
\* .write_to_file(out_path.join("capi_bindings.rs")).expect(..)
WriteCapi ==
    /\ pc = "write_capi"
    /\ WriteFile(CapiFile, "write_capi", "public_types_bindings")
    /\ UNCHANGED <<inputsMain, stdout, clang_extra_include, location_revealed,
                   clang_args, parser_runs, otherVars>>

\* the bindgen variant compiled on every target
PublicTypesBindings_alwaysParse ==
    /\ pc = "public_types_bindings"
    /\ events' = Append(events, "public_types_bindings")
    /\ clang_args' = [clang_args EXCEPT
                         !["public_types"] = ClangArgs(clang_extra_include)]
    /\ parser_runs' = [parser_runs EXCEPT !["public_types"] = @ + 1]
    /\ \E generated \in BOOLEAN, text \in ParsedSamples :
          IF generated
          THEN /\ pending' = [state |-> "complete", src |-> "parsed",
                              text |-> Replace(text, NamespacePrefix, <<>>)]
               /\ pc' = "write_public_types"
               /\ UNCHANGED failed_at
          ELSE /\ Panic("public_types_bindings")
               /\ UNCHANGED pending
    /\ UNCHANGED <<inputsMain, stdout, clang_extra_include, location_revealed,
                   out_files, otherVars>>
\* public_types_bindings(&clang_extra_include): the fixture on macos; elsewhere
\* bindgen parses wrapper_public_types.hpp and "tesseract_" is replaced by ""
PublicTypesBindings ==
    /\ pc = "public_types_bindings"
    /\ events' = Append(events, "public_types_bindings")
    /\ IF platform = "macos"
       THEN /\ pending' = [state |-> "complete", src |-> "fixture",
                           text |-> MacFixture]
            /\ pc' = "write_public_types"
            /\ UNCHANGED <<failed_at, clang_args, parser_runs>>
       ELSE /\ clang_args' = [clang_args EXCEPT
                                 !["public_types"] = ClangArgs(clang_extra_include)]
            /\ parser_runs' = [parser_runs EXCEPT !["public_types"] = @ + 1]
            /\ \E generated \in BOOLEAN, text \in ParsedSamples :
                  IF generated
                  THEN /\ pending' = [state |-> "complete", src |-> "parsed",
                                      text |-> Replace(text, NamespacePrefix, <<>>)]
                       /\ pc' = "write_public_types"
                       /\ UNCHANGED failed_at
                  ELSE /\ Panic("public_types_bindings")
                       /\ UNCHANGED pending
    /\ UNCHANGED <<inputsMain, stdout, clang_extra_include, location_revealed,
                   out_files, otherVars>>

\* fs::write(out_path.join("public_types_bindings.rs"), ..).expect(..)
WritePublicTypes ==
    /\ pc = "write_public_types"
    /\ WriteFile(PublicTypesFile, "write_public_types", "done")
    /\ UNCHANGED <<inputsMain, stdout, clang_extra_include, location_revealed,
                   clang_args, parser_runs, otherVars>>

NextMain ==
    \/ RevealLocation
    \/ EmitLinkSearch
    \/ EmitLinkLib
    \/ OutDir
    \/ CapiBindings
    \/ WriteCapi
    \/ PublicTypesBindings
    \/ WritePublicTypes

\* ------------------------------------------------------------------------
\* find_tesseract_system_lib, cfg(windows)
\* ------------------------------------------------------------------------
EnvNames == {"TESSERACT_INCLUDE_PATHS", "TESSERACT_LINK_PATHS", "TESSERACT_LINK_LIBS"}

\* characters of an override value, and of a path vcpkg reports: kept apart,
\* so that where a character of a result came from can be told
EnvChars == {"o", ","}
VcpkgChars == {"v", "w"}

\* an unpaired surrogate of an OsString, and what to_string_lossy puts for it
InvalidUnit == "<invalid>"
ReplacementChar == "<U+FFFD>"

\* env::var(name): Ok(value), Err(NotPresent) or Err(NotUnicode)
EnvVarResults ==
    {[tag |-> "NotPresent"], [tag |-> "NotUnicode"]}
        \cup {[tag |-> "Ok", val |-> v] : v \in SeqsUpTo(EnvChars, MaxEnvLen)}

\* Result::ok followed by as_deref: Some(value) only for Ok
IsSome(r) == r.tag = "Ok"

\* str::split(sep): the pieces between the separators; one (empty) piece for
\* the empty string
RECURSIVE SplitFrom(_, _, _, _)
SplitFrom(s, i, sep, cur) ==
    IF i > Len(s) THEN <<cur>>
    ELSE IF s[i] = sep
         THEN <<cur>> \o SplitFrom(s, i + 1, sep, <<>>)
         ELSE SplitFrom(s, i + 1, sep, Append(cur, s[i]))

Split(s, sep) == SplitFrom(s, 1, sep, <<>>)

\* OsStr::to_string_lossy: invalid units become U+FFFD
ToStringLossy(os) ==
    [i \in DOMAIN os |-> IF os[i] = InvalidUnit THEN ReplacementChar ELSE os[i]]

\* println!(fmt, arg)
Line(fmt, arg) == [fmt |-> fmt, arg |-> arg]

RerunLines ==
    << Line("cargo:rerun-if-env-changed=TESSERACT_INCLUDE_PATHS", <<>>),
       Line("cargo:rerun-if-env-changed=TESSERACT_LINK_PATHS", <<>>),
       Line("cargo:rerun-if-env-changed=TESSERACT_LINK_LIBS", <<>>) >>

\* what vcpkg::Config::find_package("tesseract") finds: nothing, or a Library
\* with its include paths and the cargo metadata find_package prints
VcpkgLibraries ==
    {[found |-> FALSE, include_paths |-> <<>>, cargo_metadata |-> <<>>]}
        \cup {[found |-> TRUE, include_paths |-> ps,
               cargo_metadata |-> <<Line("cargo:rustc-link-search=native={}", <<"v">>),
                                    Line("cargo:rustc-link-lib={}", <<"w">>)>>] :
                 ps \in SeqsUpTo({<<"v">>, <<"w", "v">>}, MaxPaths)}

\* the closure vcpkg: every include path, lossily converted, collected into ONE
\* String, which is the only element of the vector
VcpkgClosure(lib) ==
    << Flatten([i \in DOMAIN lib.include_paths |->
                    ToStringLossy(lib.include_paths[i])]) >>

InitWindows ==
    /\ w_env \in [EnvNames -> EnvVarResults]
    /\ w_vcpkg \in VcpkgLibraries
    /\ w_pc = "start"
    /\ w_stdout = <<>>
    /\ w_result = <<>>
    /\ w_queried = FALSE

IdleWindows ==
    /\ w_env = [n \in EnvNames |-> [tag |-> "NotPresent"]]
    /\ w_vcpkg = [found |-> FALSE, include_paths |-> <<>>, cargo_metadata |-> <<>>]
    /\ w_pc = "idle"
    /\ w_stdout = <<>>
    /\ w_result = <<>>
    /\ w_queried = FALSE

\* a bug of the kind the all-or-nothing rule excludes: each override is used
\* when it is there, and vcpkg is asked for the rest
FindTesseractSystemLibWindows_partialMix ==
    /\ w_pc = "start"
    /\ LET include_paths == w_env["TESSERACT_INCLUDE_PATHS"]
           link_paths == w_env["TESSERACT_LINK_PATHS"]
           link_libs == w_env["TESSERACT_LINK_LIBS"]
           all == IsSome(include_paths) /\ IsSome(link_paths) /\ IsSome(link_libs)
           searches == IF IsSome(link_paths)
                       THEN [i \in DOMAIN Split(link_paths.val, ",") |->
                                Line("cargo:rustc-link-search={}",
                                     Split(link_paths.val, ",")[i])]
                       ELSE <<>>
           libs == IF IsSome(link_libs)
                   THEN [i \in DOMAIN Split(link_libs.val, ",") |->
                            Line("cargo:rustc-link-lib={}",
                                 Split(link_libs.val, ",")[i])]
                   ELSE <<>>
       IN  /\ w_queried' = ~all
           /\ IF ~all /\ ~w_vcpkg.found
              THEN /\ w_pc' = "aborted"
                   /\ w_stdout' = RerunLines \o searches \o libs
                   /\ UNCHANGED w_result
              ELSE /\ w_pc' = "returned"
                   /\ w_stdout' = RerunLines \o searches \o libs
                                    \o (IF all THEN <<>> ELSE w_vcpkg.cargo_metadata)
                   /\ w_result' = IF IsSome(include_paths)
                                  THEN Split(include_paths.val, ",")
                                  ELSE VcpkgClosure(w_vcpkg)
    /\ UNCHANGED <<w_env, w_vcpkg, mainVars, pkgVars, stripVars>>
\* the three rerun-if-env-changed lines; then the overrides when all three are
\* Some, else the closure vcpkg (find_package(..).unwrap() panics when the
\* package is not found, and prints the library's cargo metadata when it is)
FindTesseractSystemLibWindows ==
    /\ w_pc = "start"
    /\ LET include_paths == w_env["TESSERACT_INCLUDE_PATHS"]
           link_paths == w_env["TESSERACT_LINK_PATHS"]
           link_libs == w_env["TESSERACT_LINK_LIBS"]
       IN  IF IsSome(include_paths) /\ IsSome(link_paths) /\ IsSome(link_libs)
           THEN LET paths == Split(link_paths.val, ",")
                    libs == Split(link_libs.val, ",")
                IN  /\ w_stdout' = RerunLines
                         \o [i \in DOMAIN paths |->
                                Line("cargo:rustc-link-search={}", paths[i])]
                         \o [i \in DOMAIN libs |->
                                Line("cargo:rustc-link-lib={}", libs[i])]
                    /\ w_result' = Split(include_paths.val, ",")
                    /\ w_pc' = "returned"
                    /\ UNCHANGED w_queried
           ELSE /\ w_queried' = TRUE
                /\ IF w_vcpkg.found
                   THEN /\ w_stdout' = RerunLines \o w_vcpkg.cargo_metadata
                        /\ w_result' = VcpkgClosure(w_vcpkg)
                        /\ w_pc' = "returned"
                   ELSE /\ w_stdout' = RerunLines
                        /\ w_pc' = "aborted"
                        /\ UNCHANGED w_result
    /\ UNCHANGED <<w_env, w_vcpkg, mainVars, pkgVars, stripVars>>

NextWindows == FindTesseractSystemLibWindows

\* ------------------------------------------------------------------------
\* std::path on a unix target: Components read from the back
\* ------------------------------------------------------------------------
NoComponent == [kind |-> "None"]
RootDir == [kind |-> "RootDir"]
CurDir == [kind |-> "CurDir"]
ParentDir == [kind |-> "ParentDir"]
Normal(name) == [kind |-> "Normal", name |-> name]

DropLast(s, n) == SubSeq(s, 1, Len(s) - n)

\* Path::components(): the whole path, nothing consumed; has_physical_root is
\* fixed here
NewComponents(path) ==
    [path |-> path, has_physical_root |-> (Len(path) >= 1 /\ path[1] = "/"),
     back |-> "Body"]

\* Components::include_cur_dir: a leading "." that stands alone
IncludeCurDir(cs) ==
    /\ ~cs.has_physical_root
    /\ Len(cs.path) >= 1
    /\ cs.path[1] = "."
    /\ (Len(cs.path) = 1 \/ cs.path[2] = "/")

\* Components::len_before_body (the front is never advanced here)
LenBeforeBody(cs) ==
    (IF cs.has_physical_root THEN 1 ELSE 0) + (IF IncludeCurDir(cs) THEN 1 ELSE 0)

\* Components::parse_single_component
ParseSingleComponent(comp) ==
    IF comp = <<".">> THEN NoComponent
    ELSE IF comp = <<".", ".">> THEN ParentDir
    ELSE IF comp = <<>> THEN NoComponent
    ELSE Normal(comp)

\* Components::parse_next_component_back: the text after the last separator of
\* the body, and how many characters it and that separator take
ParseNextComponentBack(cs) ==
    LET start == LenBeforeBody(cs)
        seps == {i \in (start + 1)..Len(cs.path) : cs.path[i] = "/"}
        last == CHOOSE i \in seps : \A j \in seps : j <= i
        comp == IF seps = {} THEN SubSeq(cs.path, start + 1, Len(cs.path))
                ELSE SubSeq(cs.path, last + 1, Len(cs.path))
    IN  [size |-> Len(comp) + (IF seps = {} THEN 0 ELSE 1),
         comp |-> ParseSingleComponent(comp)]

\* Components::next_back
RECURSIVE NextBack(_)
NextBack(cs) ==
    IF cs.back = "Done" THEN [comp |-> NoComponent, cs |-> cs]
    ELSE IF cs.back = "Body" /\ Len(cs.path) > LenBeforeBody(cs)
    THEN LET r == ParseNextComponentBack(cs)
             rest == [cs EXCEPT !.path = DropLast(cs.path, r.size)]
         IN  IF r.comp # NoComponent THEN [comp |-> r.comp, cs |-> rest]
             ELSE NextBack(rest)
    ELSE IF cs.back = "Body" THEN NextBack([cs EXCEPT !.back = "StartDir"])
    ELSE IF cs.back = "StartDir"
    THEN IF cs.has_physical_root
         THEN [comp |-> RootDir,
               cs |-> [cs EXCEPT !.back = "Prefix", !.path = DropLast(cs.path, 1)]]
         ELSE IF IncludeCurDir(cs)
         THEN [comp |-> CurDir,
               cs |-> [cs EXCEPT !.back = "Prefix", !.path = DropLast(cs.path, 1)]]
         ELSE NextBack([cs EXCEPT !.back = "Prefix"])
    ELSE [comp |-> NoComponent, cs |-> [cs EXCEPT !.back = "Done"]]

\* Components::trim_right, as as_path applies it while the back is in the body
RECURSIVE TrimRight(_)
TrimRight(cs) ==
    IF Len(cs.path) > LenBeforeBody(cs)
    THEN LET r == ParseNextComponentBack(cs)
         IN  IF r.comp # NoComponent THEN cs
             ELSE TrimRight([cs EXCEPT !.path = DropLast(cs.path, r.size)])
    ELSE cs

\* Components::as_path
AsPath(cs) == IF cs.back = "Body" THEN TrimRight(cs).path ELSE cs.path

\* path.components().rev().collect()
RECURSIVE ComponentsRevOf(_)
ComponentsRevOf(cs) ==
    LET r == NextBack(cs)
    IN  IF r.comp = NoComponent THEN <<>>
        ELSE <<r.comp>> \o ComponentsRevOf(r.cs)

ComponentsRev(path) == ComponentsRevOf(NewComponents(path))

\* Path::parent
Parent(path) ==
    LET r == NextBack(NewComponents(path))
    IN  IF r.comp.kind \in {"Normal", "CurDir", "ParentDir"}
        THEN [some |-> TRUE, path |-> AsPath(r.cs)]
        ELSE [some |-> FALSE, path |-> <<>>]

\* PathBuf::pop: truncate to the parent, or do nothing when there is none
Pop(path) == IF Parent(path).some THEN Parent(path).path ELSE path

\* the comparison of str::ends_with: the text ends with the characters
EndsWith_chars(path, child) ==
    /\ Len(child) <= Len(path)
    /\ SubSeq(path, Len(path) - Len(child) + 1, Len(path)) = child
\* Path::ends_with: the components of child, read from the back, begin those
\* of path
EndsWith(path, child) ==
    LET a == ComponentsRev(path)
        b == ComponentsRev(child)
    IN  /\ Len(b) <= Len(a)
        /\ SubSeq(a, 1, Len(b)) = b

\* ------------------------------------------------------------------------
\* find_tesseract_system_lib, cfg(macos / linux / freebsd)
\* ------------------------------------------------------------------------
IncludeName == <<"i", "n", "c", "l", "u", "d", "e">>

PathPieces == { <<"/">>, IncludeName, <<"m", "y">>, <<".">> }

\* the paths pkg-config can report (they are Strings: no invalid unit)
PkgPaths == { Flatten(ps) : ps \in SeqsUpTo(PathPieces, MaxPathPieces) }

\* paths of each kind, for the lists of several
FewPaths == { <<"/">> \o IncludeName,
              <<"/">> \o IncludeName \o <<"/", "m", "y">>,
              <<"/", "m", "y">> \o IncludeName,
              <<"/">> }

PkgLibraries ==
    {[found |-> FALSE, link_paths |-> <<>>, include_paths |-> <<>>]}
        \cup {[found |-> TRUE, link_paths |-> ls, include_paths |-> ps] :
                 ls \in {<<>>, << <<"/", "m", "y">> >>},
                 ps \in {<<q>> : q \in PkgPaths} \cup SeqsUpTo(FewPaths, MaxPaths)}

\* the closure of the first map: pop unless the path ends with "include"
TrimInclude(x) == IF ~EndsWith(x, IncludeName) THEN Pop(x) ELSE x

InitPkgConfig ==
    /\ p_pk \in PkgLibraries
    /\ p_pc = "start"
    /\ p_stdout = <<>>
    /\ p_result = <<>>

IdlePkgConfig ==
    /\ p_pk = [found |-> FALSE, link_paths |-> <<>>, include_paths |-> <<>>]
    /\ p_pc = "idle"
    /\ p_stdout = <<>>
    /\ p_result = <<>>

\* probe("tesseract").unwrap() panics when the package is not found, and
\* pk.link_paths[0] when no link path is reported
FindTesseractSystemLibPkgConfig ==
    /\ p_pc = "start"
    /\ IF ~p_pk.found \/ p_pk.link_paths = <<>>
       THEN /\ p_pc' = "aborted"
            /\ UNCHANGED <<p_stdout, p_result>>
       ELSE /\ p_stdout' = << Line("cargo:rustc-link-search=native={:?}",
                                   p_pk.link_paths[1]),
                              Line("cargo:rustc-link-lib=tesseract", <<>>) >>
            /\ p_result' = [i \in DOMAIN p_pk.include_paths |->
                               ToStringLossy(TrimInclude(p_pk.include_paths[i]))]
            /\ p_pc' = "returned"
    /\ UNCHANGED <<p_pk, mainVars, winVars, stripVars>>

NextPkgConfig == FindTesseractSystemLibPkgConfig

\* ------------------------------------------------------------------------
\* public_types_bindings, cfg(not macos): the text after generation
\* ------------------------------------------------------------------------
InitStrip ==
    /\ s_text \in GeneratedTexts
    /\ s_pc = "generated"
    /\ s_result = <<>>

IdleStrip ==
    /\ s_text = <<>>
    /\ s_pc = "idle"
    /\ s_result = <<>>

\* .to_string().replace("tesseract_", "")
StripNamespacePrefix ==
    /\ s_pc = "generated"
    /\ s_result' = Replace(s_text, NamespacePrefix, <<>>)
    /\ s_pc' = "stripped"
    /\ UNCHANGED <<s_text, mainVars, winVars, pkgVars>>

NextStrip == StripNamespacePrefix

\* ------------------------------------------------------------------------
\* Specifications
\* ------------------------------------------------------------------------
\* main is not run: only the platform the locator is compiled for is chosen
IdleMain(platforms) ==
    /\ platform \in platforms
    /\ env_HOME = TRUE
    /\ env_OUT_DIR = TRUE
    /\ bundled_lib = TRUE
    /\ bundled_include = TRUE
    /\ pc = "idle"
    /\ failed_at = ""
    /\ stdout = <<>>
    /\ clang_extra_include = <<>>
    /\ location_revealed = FALSE
    /\ events = <<>>
    /\ clang_args = [g \in {"capi", "public_types"} |-> <<>>]
    /\ parser_runs = [g \in {"capi", "public_types"} |-> 0]
    /\ pending = NoFile
    /\ out_files = [f \in {CapiFile, PublicTypesFile} |-> NoFile]

Init == InitMain /\ IdleWindows /\ IdlePkgConfig /\ IdleStrip
Next == NextMain
Spec == Init /\ [][Next]_vars

InitW == IdleMain({"windows"}) /\ InitWindows /\ IdlePkgConfig /\ IdleStrip
SpecWindows == InitW /\ [][NextWindows]_vars

InitP ==
    IdleMain({"macos", "linux", "freebsd"}) /\ IdleWindows /\ InitPkgConfig /\ IdleStrip
SpecPkgConfig == InitP /\ [][NextPkgConfig]_vars

InitS ==
    IdleMain(PlatformIdentity \ {"macos"}) /\ IdleWindows /\ IdlePkgConfig /\ InitStrip
SpecStrip == InitS /\ [][NextStrip]_vars

\* ------------------------------------------------------------------------
\* Properties of a run of main
\* ------------------------------------------------------------------------
IsPrefix(a, b) == Len(a) <= Len(b) /\ SubSeq(b, 1, Len(a)) = a

\* the two directives of the bundled copy, as cargo reads them
BundledDirectives ==
    << "cargo:rustc-link-search=native=resources/libs/tesseract/5.3.4/lib",
       "cargo:rustc-link-lib=tesseract" >>

BundledInclude == "resources/libs/tesseract/5.3.4/include"

StepOrder ==
    << "capi_bindings", "write capi_bindings.rs",
       "public_types_bindings", "write public_types_bindings.rs" >>

\* C1: the steps of a run occur in one fixed order, each at most once: the
\* link-search and the link-library directive, then the C-interface generator
\* and the write of capi_bindings.rs, then the public-enum generator and the
\* write of public_types_bindings.rs.  No generator is called before both
\* directives are out, and public_types_bindings.rs is never written before
\* capi_bindings.rs.
C1_FixedOrder ==
    /\ IsPrefix(stdout, BundledDirectives)
    /\ IsPrefix(events, StepOrder)
    /\ events # <<>> => stdout = BundledDirectives
    /\ \A g \in DOMAIN parser_runs : parser_runs[g] <= 1
    /\ out_files[CapiFile].state # "none" => Len(events) >= 2
    /\ out_files[PublicTypesFile].state # "none" =>
          /\ out_files[CapiFile].state = "complete"
          /\ events = StepOrder

C1_Witness ==
    /\ pc = "done"
    /\ stdout = BundledDirectives
    /\ events = StepOrder

\* what may have happened when the step named by failed_at is the one that
\* failed: nothing of any later step
NothingAfter(step) ==
    CASE step = "reveal_location" ->
            stdout = <<>> /\ clang_extra_include = <<>> /\ events = <<>>
      [] step = "out_dir" -> events = <<>>
      [] step = "capi_bindings" -> events = SubSeq(StepOrder, 1, 1)
      [] step = "write_capi" ->
            events = SubSeq(StepOrder, 1, 2)
                /\ out_files[CapiFile].state # "complete"
      [] step = "public_types_bindings" -> events = SubSeq(StepOrder, 1, 3)
      [] step = "write_public_types" ->
            events = StepOrder /\ out_files[PublicTypesFile].state # "complete"
      [] OTHER -> FALSE

\* C2: a step completes or the whole run aborts: after a failure no later step
\* runs and no later artifact is written, no step is tried again, and the run
\* ends in success only when both artifacts were written completely.
C2_CompleteOrAbort ==
    /\ pc = "aborted" =>
          /\ NothingAfter(failed_at)
          /\ Len(events) < 2 => out_files[CapiFile].state = "none"
          /\ Len(events) < 4 => out_files[PublicTypesFile].state = "none"
    /\ pc # "aborted" => failed_at = ""
    /\ \A i, j \in DOMAIN events : events[i] = events[j] => i = j
    /\ \A g \in DOMAIN parser_runs : parser_runs[g] <= 1
    /\ pc = "done" =>
          /\ out_files[CapiFile].state = "complete"
          /\ out_files[PublicTypesFile].state = "complete"

C2_Witness ==
    /\ pc = "aborted"
    /\ failed_at = "write_capi"
    /\ out_files[CapiFile].state = "partial"
    /\ out_files[PublicTypesFile].state = "none"

\* C3: no run ends aborted with capi_bindings.rs written by it and
\* public_types_bindings.rs not.
C3_NoPartialArtifactSet ==
    pc = "aborted" =>
        ~(/\ out_files[CapiFile].state = "complete"
          /\ out_files[PublicTypesFile].state # "complete")

DiscoveryReturned ==
    \/ pc \in {"out_dir", "capi_bindings", "write_capi", "public_types_bindings",
               "write_public_types", "done"}
    \/ pc = "aborted" /\ failed_at # "reveal_location"

C5_MissingBundleIsFatal ==
    (~bundled_lib \/ ~bundled_include) =>
        /\ stdout = <<>>
        /\ clang_extra_include = <<>>
        /\ events = <<>>
        /\ pc # "done"

\* C9: on macos the public-enum artifact a successful run writes is the
\* fixture, and bindgen is never run for it; on every other platform it is the
\* parsed text with the prefix replaced, never the fixture.
C9_FixtureOnlyOnMacos ==
    /\ platform = "macos" => parser_runs["public_types"] = 0
    /\ out_files[PublicTypesFile].state = "complete" =>
          IF platform = "macos"
          THEN /\ out_files[PublicTypesFile].src = "fixture"
               /\ out_files[PublicTypesFile].text = MacFixture
          ELSE /\ out_files[PublicTypesFile].src = "parsed"
               /\ parser_runs["public_types"] = 1
               /\ \E t \in ParsedSamples :
                     out_files[PublicTypesFile].text = Replace(t, NamespacePrefix, <<>>)

C9_Witness ==
    /\ pc = "done"
    /\ platform = "macos"
    /\ out_files[PublicTypesFile].src = "fixture"
    /\ parser_runs["capi"] = 1

\* ------------------------------------------------------------------------
\* Properties of the prefix stripping
\* ------------------------------------------------------------------------
\* C8: after the stripping no occurrence of "tesseract_" is left in the text,
\* whatever text was generated.
C8_NoPrefixTokenLeft ==
    s_pc = "stripped" => ~Occurs(s_result, NamespacePrefix)

\* C3 (as amended): a run that ends aborted has not written
\* public_types_bindings.rs completely, and has left a complete
\* capi_bindings.rs only when the step that failed is the public-enum
\* generation or the write of its artifact.
C3_AbortLeavesNoLaterArtifact ==
    pc = "aborted" =>
        /\ out_files[PublicTypesFile].state # "complete"
        /\ out_files[CapiFile].state = "complete" =>
              failed_at \in {"public_types_bindings", "write_public_types"}
        /\ failed_at \in {"public_types_bindings", "write_public_types"} =>
              out_files[CapiFile].state = "complete"

C3_Witness ==
    /\ pc = "aborted"
    /\ failed_at = "public_types_bindings"
    /\ out_files[CapiFile].state = "complete"
    /\ out_files[PublicTypesFile].state = "none"

\* ------------------------------------------------------------------------
\* Properties of the windows locator
\* ------------------------------------------------------------------------
RECURSIVE Join(_, _)
Join(parts, sep) ==
    IF Len(parts) = 0 THEN <<>>
    ELSE IF Len(parts) = 1 THEN parts[1]
    ELSE parts[1] \o <<sep>> \o Join(Tail(parts), sep)

Has(text, chars) == \E i \in DOMAIN text : text[i] \in chars

IsFmt(fmt, l) == l.fmt = fmt
ArgsOf(fmt) ==
    LET ls == SelectSeq(w_stdout, LAMBDA l : IsFmt(fmt, l))
    IN  [i \in DOMAIN ls |-> ls[i].arg]

\* the list a value spells: its items hold no comma and, joined by commas,
\* give the value back
Lists(items, value) ==
    /\ \A i \in DOMAIN items : ~Has(items[i], {","})
    /\ Join(items, ",") = value

OverridesUsed ==
    /\ w_pc = "returned"
    /\ ~w_queried
    /\ Lists(ArgsOf("cargo:rustc-link-search={}"), w_env["TESSERACT_LINK_PATHS"].val)
    /\ Lists(ArgsOf("cargo:rustc-link-lib={}"), w_env["TESSERACT_LINK_LIBS"].val)
    /\ Lists(w_result, w_env["TESSERACT_INCLUDE_PATHS"].val)
    /\ Len(w_stdout) = Len(RerunLines)
                         + Len(ArgsOf("cargo:rustc-link-search={}"))
                         + Len(ArgsOf("cargo:rustc-link-lib={}"))

PackageManagerUsed ==
    /\ w_queried
    /\ \A i \in DOMAIN w_stdout : ~Has(w_stdout[i].arg, EnvChars)
    /\ \A i \in DOMAIN w_result : ~Has(w_result[i], EnvChars)
    /\ w_pc = "returned" => w_stdout = RerunLines \o w_vcpkg.cargo_metadata
    /\ w_pc = "aborted" => w_stdout = RerunLines

\* C6 (as stated): with all three variables present the overrides are used and
\* vcpkg is not asked; with any one absent vcpkg is asked and no override value
\* is used.
C6_AllOrNothingByPresence ==
    w_pc \in {"returned", "aborted"} =>
        IF \A n \in EnvNames : w_env[n].tag # "NotPresent"
        THEN ~w_queried
        ELSE PackageManagerUsed

\* C6 (as amended): the choice is all-or-nothing over the three variables, a
\* variable counting as present when it is set to valid Unicode: with all
\* three present there is one link-search directive per listed link path, one
\* link-library directive per listed name, the listed include paths are
\* returned in order and vcpkg is not asked; with any one absent or not valid
\* Unicode vcpkg is asked and no override value reaches a directive or the
\* returned include paths.
C6_AllOrNothingByValidValue ==
    w_pc \in {"returned", "aborted"} =>
        IF \A n \in EnvNames : w_env[n].tag = "Ok"
        THEN OverridesUsed
        ELSE PackageManagerUsed

C6_Witness ==
    /\ w_pc = "returned"
    /\ ~w_queried
    /\ w_env["TESSERACT_LINK_PATHS"] = [tag |-> "Ok", val |-> <<"o", ",", "o">>]
    /\ Len(ArgsOf("cargo:rustc-link-search={}")) = 2
    /\ w_result = << <<"o">>, <<>> >>

\* C10: when vcpkg is asked, the include paths returned are the ones it
\* reports: as many, in the same order, each equal to the reported path.
C10_ReportedIncludePathsReturned ==
    (w_pc = "returned" /\ w_queried) =>
        /\ Len(w_result) = Len(w_vcpkg.include_paths)
        /\ \A i \in DOMAIN w_result : w_result[i] = w_vcpkg.include_paths[i]

\* ------------------------------------------------------------------------
\* Properties of the pkg-config locator
\* ------------------------------------------------------------------------
\* the segments of a path as a reader of the text sees them: "/" for the
\* root, then the names between separators; an empty name or "." is no
\* segment, except a leading "." of a relative path
RECURSIVE SegmentsFrom(_, _, _)
SegmentsFrom(parts, i, rooted) ==
    IF i > Len(parts) THEN <<>>
    ELSE IF parts[i] = <<>> \/ (parts[i] = <<".">> /\ (i > 1 \/ rooted))
         THEN SegmentsFrom(parts, i + 1, rooted)
         ELSE <<parts[i]>> \o SegmentsFrom(parts, i + 1, rooted)

Segments(path) ==
    LET rooted == Len(path) >= 1 /\ path[1] = "/"
    IN  (IF rooted THEN << <<"/">> >> ELSE <<>>)
            \o SegmentsFrom(Split(path, "/"), 1, rooted)

Front(s) == SubSeq(s, 1, Len(s) - 1)

PostProcessed(reported, returned) ==
    LET segs == Segments(reported)
    IN  IF segs = <<>> \/ segs[Len(segs)] \in {IncludeName, <<"/">>}
        THEN returned = reported
        ELSE /\ Segments(returned) = Front(segs)
             /\ IsPrefix(returned, reported)

\* C7: the include paths pkg-config reports are post-processed one by one,
\* number and order kept: a path whose final segment is "include" is returned
\* as it is, a path with no segment to remove too, and every other path with
\* exactly its final segment removed.
C7_IncludePathsPostProcessed ==
    p_pc = "returned" =>
        /\ Len(p_result) = Len(p_pk.include_paths)
        /\ \A i \in DOMAIN p_result :
              PostProcessed(p_pk.include_paths[i], p_result[i])

C7_Witness ==
    /\ p_pc = "returned"
    /\ p_pk.include_paths = << <<"/", "m", "y">> \o IncludeName,
                               <<"/">> \o IncludeName >>
    /\ p_result = << <<"/">>, <<"/">> \o IncludeName >>
====
